---- MODULE Spec2Model ----
(***************************************************************************)
(* Model of the card scanner back end (src/app.py): the mask-to-           *)
(* quadrilateral step, the corner ordering and rectification, the /upload  *)
(* request handler, and the Annoy index builder and matcher.               *)
(*                                                                         *)
(* The OpenCV, YOLO, imagehash and Annoy calls are external.  Each is      *)
(* modelled by the part of its result that app.py reads: approxPolyDP by   *)
(* the vertex count of the polygon it returns, the detector by the list of *)
(* masks it returns, and so on.                                            *)
(***************************************************************************)
EXTENDS Integers, Sequences, FiniteSets, TLC

VARIABLES
    \* process_full_mask: its argument, its return value, whether it returned
    mask, rectangle, mpc,
    \* corner ordering and rectification of one quadrilateral: the source image,
    \* the 4 corners in two orders, what sort_rectangle_points returns for each,
    \* the list the warped card is appended to, the position in the loop body,
    \* and how this build's np.argsort orders equal keys
    img, quad, quad_perm, sorted_a, sorted_b, warped_cards, gpc, stable_sort,
    \* the files hash_db.json and pokemon_annoy.index
    files,
    \* build_annoy_index: position, hash_db, index, card_ids, entries visited
    b_pc, b_hash_db, b_index, b_card_ids, b_i,
    \* find_matching_card: position, detected_embedding, index,
    \* nearest_neighbors, hash_db, the value returned or the exception raised
    l_pc, l_embedding, l_index, l_nn, l_hash_db, l_result,
    \* upload_image: the request, what detect_edges_and_corners returned, the
    \* response, and whether the request was answered
    request, detected_cards, response, rpc

maskVars == <<mask, rectangle, mpc>>
geomVars == <<img, quad, quad_perm, sorted_a, sorted_b, warped_cards, gpc,
              stable_sort>>
indexVars == <<files, b_pc, b_hash_db, b_index, b_card_ids, b_i,
               l_pc, l_embedding, l_index, l_nn, l_hash_db, l_result>>
requestVars == <<request, detected_cards, response, rpc>>
notMaskVars == <<geomVars, indexVars, requestVars>>
notGeomVars == <<maskVars, indexVars, requestVars>>
notIndexVars == <<maskVars, geomVars, requestVars>>
notRequestVars == <<maskVars, geomVars, indexVars>>
vars == <<maskVars, geomVars, indexVars, requestVars>>

(***************************************************************************)
(* Values shared by all parts.                                             *)
(***************************************************************************)
\* Python's None.
None == [type |-> "None"]

(***************************************************************************)
(* process_full_mask (app.py 12-54)                                        *)
(***************************************************************************)
\* Largest vertex count approxPolyDP returns in the model.
MaxVertices == 5

\* Vertex counts approxPolyDP may return: fewer than, exactly, more than 4.
VertexCounts == 3..MaxVertices

\* The corners of the polygon approxPolyDP returns when it has 4 vertices,
\* for the masks whose geometry is not of interest.
UnitCorners == << <<0, 0>>, <<1, 0>>, <<1, 1>>, <<0, 1>> >>

\* epsilon = 0.02 * arcLength(largest_contour), in hundredths of the perimeter.
InitialEpsilon == 2

\* np.linspace(0.01, 0.1, 10) has 10 values.
SweepCount == 10

\* np.linspace(0.01, 0.1, 10)[k-1], in hundredths: 0.01, 0.02, ..., 0.10.
epsilon_factor(k) == k

\* A mask, as far as process_full_mask reads it: whether the closed mask has
\* an external contour (len(contours) > 0), the vertex count approxPolyDP
\* gives for the largest contour at 2% tolerance, the vertex count it gives
\* for the convex hull at each tolerance of the sweep, and the corners of a
\* 4-vertex approximation.
Masks ==
    { [hasContour |-> FALSE, contourApprox |-> 0, hullApprox |-> <<>>,
       corners |-> <<>>] }
    \cup [hasContour : {TRUE},
          contourApprox : VertexCounts,
          hullApprox : [1..SweepCount -> VertexCounts],
          corners : {UnitCorners}]

\* cv2.approxPolyDP(curve, eps * arcLength(curve), True): the polygon it
\* returns, identified by the curve and tolerance that produced it, with its
\* number of vertices.
approxPolyDP(m, curve, eps) ==
    LET n == IF curve = "largest_contour" THEN m.contourApprox
             ELSE m.hullApprox[eps]
    IN  [type |-> "polygon", curve |-> curve, epsilon |-> eps, n |-> n,
         points |-> IF n = 4 THEN m.corners ELSE <<>>]

\* The sweep with the break removed: every tolerance is tried, the last wins.
RECURSIVE SweepNoBreak(_, _, _)
SweepNoBreak(m, k, approx) ==
    IF k > SweepCount THEN approx
    ELSE SweepNoBreak(m, k + 1, approxPolyDP(m, "hull", epsilon_factor(k)))

\* for epsilon_factor in np.linspace(0.01, 0.1, 10): approx = approxPolyDP(hull,
\* ...); if len(approx) == 4: break.  The value of approx after the loop, from
\* iteration k on, approx being its value before.
RECURSIVE Sweep(_, _, _)
Sweep(m, k, approx) ==
    IF k > SweepCount THEN approx
    ELSE LET a == approxPolyDP(m, "hull", epsilon_factor(k))
         IN  IF a.n = 4 THEN a ELSE Sweep(m, k + 1, a)

\* process_full_mask without its last length check.
process_full_mask_unchecked(m) ==
    IF ~m.hasContour THEN None
    ELSE LET approx0 == approxPolyDP(m, "largest_contour", InitialEpsilon)
         IN  IF approx0.n # 4 THEN Sweep(m, 1, approx0) ELSE approx0

process_full_mask(m) ==
    IF ~m.hasContour THEN None
    ELSE LET approx0 == approxPolyDP(m, "largest_contour", InitialEpsilon)
             approx  == IF approx0.n # 4 THEN Sweep(m, 1, approx0) ELSE approx0
         IN  IF approx.n # 4 THEN None ELSE approx

MaskStart ==
    /\ mask \in Masks
    /\ rectangle = None
    /\ mpc = "called"

\* The part is not in use.
MaskIdle ==
    /\ mask = None
    /\ rectangle = None
    /\ mpc = "idle"

\* rectangle = process_full_mask(mask_np)
CallProcessFullMask ==
    /\ mpc = "called"
    /\ rectangle' = process_full_mask(mask)
    /\ mpc' = "returned"
    /\ UNCHANGED mask
    /\ UNCHANGED notMaskVars

(***************************************************************************)
(* sort_rectangle_points (app.py 145-161) and the loop body that rectifies *)
(* one quadrilateral (app.py 106-136)                                      *)
(***************************************************************************)
\* Detection-resolution coordinates of a corner run over 0..GridMax.
GridMax == 2

\* Width and height of the uploaded image, in pixels, run over 1..MaxImgSide.
MaxImgSide == 2

\* card_width = 500, card_height = 700
card_width == 500
card_height == 700

Grid == (0..GridMax) \X (0..GridMax)
\* A decoded photograph: its width and height in pixels and the card it shows.
Images == [w : 1..MaxImgSide, h : 1..MaxImgSide, shows : {"base1-1"}]

\* A point is <<x, y>>: points[:, 0] is x, points[:, 1] is y.
X(p) == p[1]
Y(p) == p[2]

\* The array of the n elements f[1], ..., f[n].
RECURSIVE Array(_, _)
Array(f, n) == IF n = 0 THEN <<>> ELSE Append(Array(f, n - 1), f[n])

\* The number of keys np.argsort places before keys[i].  np.argsort's default
\* kind is not a stable sort: where keys are equal the order is the build's
\* choice, here either by ascending or by descending index.
Rank(keys, i, stable) ==
    Cardinality({ j \in 1..Len(keys) :
        \/ keys[j] < keys[i]
        \/ keys[j] = keys[i] /\ (IF stable THEN j < i ELSE j > i) })

\* np.argsort(keys): the indices of keys in ascending order of key.
argsort(keys, stable) ==
    Array([r \in 1..Len(keys) |->
              CHOOSE i \in 1..Len(keys) : Rank(keys, i, stable) = r - 1],
          Len(keys))

\* a[idx]: a indexed by an array of indices.
Take(a, idx) == Array([r \in 1..Len(idx) |-> a[idx[r]]], Len(idx))

\* a[::-1]
Reversed(a) == Array([r \in 1..Len(a) |-> a[Len(a) + 1 - r]], Len(a))

\* points[:, 0] and points[:, 1]
Column(points, c) == Array([i \in 1..Len(points) |-> points[i][c]], Len(points))

sort_rectangle_points(points, stable) ==
    LET by_y   == Take(points, argsort(Column(points, 2), stable))
        top    == SubSeq(by_y, 1, 2)
        bottom == SubSeq(by_y, 3, 4)
        top_points    == Take(top, argsort(Column(top, 1), stable))
        bottom_points == Reversed(Take(bottom,
                                       argsort(Column(bottom, 1), stable)))
    IN  top_points \o bottom_points

\* rectangle * np.array([scale_x, scale_y]) with scale_x = img.shape[1] / 640
\* and scale_y = img.shape[0] / 640.  Coordinates of the original image are
\* kept in units of 1/640 pixel, which makes the product exact.
rectangle_original(points, image) ==
    Array([i \in 1..Len(points) |->
              <<X(points[i]) * image.w, Y(points[i]) * image.h>>],
          Len(points))

\* dst_points, in pixels of the output card.
dst_points ==
    << <<0, 0>>,
       <<card_width - 1, 0>>,
       <<card_width - 1, card_height - 1>>,
       <<0, card_height - 1>> >>

Collinear(p, q, r) ==
    (X(q) - X(p)) * (Y(r) - Y(p)) = (Y(q) - Y(p)) * (X(r) - X(p))

\* Three of the four points lie on one line: no projective transform maps
\* them to the corners of dst_points, and the 8x8 system that
\* cv2.getPerspectiveTransform solves is singular.
Degenerate(points) ==
    \E i, j, k \in 1..4 :
        i < j /\ j < k /\ Collinear(points[i], points[j], points[k])

\* cv2.getPerspectiveTransform(src, dst).  It raises nothing for a singular
\* system: it returns the matrix the solver left.
getPerspectiveTransform(src, dst) ==
    [src |-> src, dst |-> dst, singular |-> Degenerate(src)]

\* cv2.warpPerspective(img_rgb, M, (card_width, card_height)): an image of the
\* size asked for, whose content is that of the source quadrilateral when M
\* is a projective transform and is without meaning when M is singular.
warpPerspective(image, M, size) ==
    [type |-> "image", width |-> size[1], height |-> size[2],
     content |-> IF M.singular THEN "garbage" ELSE image.shows,
     quad |-> M.src]

\* The body of "if rectangle is not None" in detect_edges_and_corners: the
\* image appended to detected_cards for one rectangle.
warped_image(image, points, stable) ==
    LET rect_points == sort_rectangle_points(
                           rectangle_original(points, image), stable)
        M == getPerspectiveTransform(rect_points, dst_points)
    IN  warpPerspective(image, M, <<card_width, card_height>>)

\* The key that orders the corners of a quadrilateral in the initial states.
GridKey(p) == X(p) * (GridMax + 1) + Y(p)

\* 4 distinct corners, listed once each.
Quads ==
    { q \in [1..4 -> Grid] : \A i \in 1..3 : GridKey(q[i]) < GridKey(q[i + 1]) }

GeomStart ==
    /\ img \in Images
    /\ quad \in Quads
    /\ \E pi \in Permutations(1..4) : quad_perm = [i \in 1..4 |-> quad[pi[i]]]
    /\ stable_sort \in BOOLEAN
    /\ sorted_a = <<>>
    /\ sorted_b = <<>>
    /\ warped_cards = <<>>
    /\ gpc = "start"

GeomIdle ==
    /\ img = None
    /\ quad = <<>>
    /\ quad_perm = <<>>
    /\ sorted_a = <<>>
    /\ sorted_b = <<>>
    /\ warped_cards = <<>>
    /\ gpc = "idle"

\* sort_rectangle_points applied to the same 4 corners in two orders.
SortPoints ==
    /\ gpc = "start"
    /\ sorted_a' = sort_rectangle_points(quad, stable_sort)
    /\ sorted_b' = sort_rectangle_points(quad_perm, stable_sort)
    /\ gpc' = "sorted"
    /\ UNCHANGED <<img, quad, quad_perm, warped_cards, stable_sort>>
    /\ UNCHANGED notGeomVars

\* One pass of the loop body for a mask whose rectangle is quad_perm.
RectifyQuad ==
    /\ gpc = "sorted"
    /\ warped_cards' =
           Append(warped_cards, warped_image(img, quad_perm, stable_sort))
    /\ gpc' = "rectified"
    /\ UNCHANGED <<img, quad, quad_perm, sorted_a, sorted_b, stable_sort>>
    /\ UNCHANGED notGeomVars

(***************************************************************************)
(* compute_robust_hash (app.py 164-179), build_annoy_index (182-217) and   *)
(* find_matching_card (220-256)                                            *)
(***************************************************************************)
\* hash_size=32 in the three imagehash calls.
hash_size == 32

\* AnnoyIndex(3072, 'euclidean')
IndexDim == 3072

\* index.get_nns_by_vector(detected_embedding, 5, ...)
NumNeighbors == 5

\* index.build(10)
NumTrees == 10

\* Largest number of entries of the reference database.
MaxCards == 2

\* Default arguments of build_annoy_index and find_matching_card.
hash_db_path == "hash_db.json"
annoy_index_path == "pokemon_annoy.index"

\* An exception raised by Python.
Raised(name) == [type |-> "exception", name |-> name]
IsRaised(v) == v.type = "exception"

\* An array of bits (or of 0.0/1.0 floats): its length and the set of the
\* positions, from 1, that hold a 1.
BitArray(len, ones) == [type |-> "ndarray", len |-> len, ones |-> ones]

\* np.concatenate([a, b, c])
Concatenate3(a, b, c) ==
    BitArray(a.len + b.len + c.len,
             a.ones \cup { a.len + i : i \in b.ones }
                    \cup { a.len + b.len + i : i \in c.ones })

\* A string of hexadecimal digits: its length and the digits that are not 0,
\* as pairs <<position from 1, value>>.
HexString(len, digits) == [len |-> len, digits |-> digits]

\* Bit b (1 is the most significant of 4) of the hexadecimal digit v.
HexBit(v, b) == (v \div (2 ^ (4 - b))) % 2 = 1

\* imagehash.hex_to_hash(hexstr): an ImageHash whose bit array is the binary
\* expansion of the string, most significant bit first.
hex_to_hash(hexstr) ==
    [type |-> "ImageHash",
     hash |-> BitArray(4 * hexstr.len,
                  { 4 * (e[1][1] - 1) + e[2] :
                      e \in { f \in hexstr.digits \X (1..4) :
                                  HexBit(f[1][2], f[2]) } })]

\* The cards of the reference database.
CardNames == {"base1-1", "base1-2"}

\* The number of digits of a stored hash: hash_size * hash_size bits.
HexLen == (hash_size * hash_size) \div 4

\* The value hash_db.json stores for a card.  Two cards share their phash.
StoredHashes(c) ==
    IF c = "base1-1"
    THEN [phash |-> HexString(HexLen, {<<1, 8>>}),
          ahash |-> HexString(HexLen, {<<1, 4>>, <<3, 10>>}),
          dhash |-> HexString(HexLen, {<<HexLen, 1>>})]
    ELSE [phash |-> HexString(HexLen, {<<1, 8>>}),
          ahash |-> HexString(HexLen, {<<2, 15>>}),
          dhash |-> HexString(HexLen, {<<HexLen, 3>>})]

\* Lists of card names without repetition.
NameLists ==
    UNION { { s \in [1..n -> CardNames] :
                \A i, j \in 1..n : i # j => s[i] # s[j] } :
            n \in 0..MaxCards }

\* json.load of hash_db.json: the items of the dict in insertion order, each
\* <<card_id, stored_hashes>>.
DbOf(names) == [i \in 1..Len(names) |-> <<names[i], StoredHashes(names[i])>>]
DbVersions == { DbOf(s) : s \in NameLists }

\* list(hash_db.keys())
Keys(hash_db) == [i \in 1..Len(hash_db) |-> hash_db[i][1]]

\* What a picture shows: a card of the reference database, or nothing that
\* can be recognised.
Contents == CardNames \cup {"garbage"}

\* imagehash.phash, average_hash and dhash of a PIL image at hash_size 32:
\* hash_size * hash_size bits, a function of the pixels.  A picture of a
\* reference card has the hashes stored for the card.
imagehash(which, image) ==
    IF image.content \in CardNames
    THEN hex_to_hash(StoredHashes(image.content)[which])
    ELSE [type |-> "ImageHash",
          hash |-> BitArray(hash_size * hash_size, {})]

\* compute_robust_hash(image): the three hashes as float vectors.  The
\* imagehash functions call image.convert, which only a PIL image has.
compute_robust_hash(image) ==
    IF image.type # "image" THEN Raised("AttributeError")
    ELSE [type |-> "tuple",
          phash_vec |-> imagehash("phash", image).hash,
          ahash_vec |-> imagehash("ahash", image).hash,
          dhash_vec |-> imagehash("dhash", image).hash]

\* AnnoyIndex(3072, 'euclidean'), without items.  card_ids is the id mapping
\* of the build that wrote the index, which the index file does not hold.
AnnoyIndex(f, metric) ==
    [type |-> "AnnoyIndex", f |-> f, metric |-> metric, items |-> <<>>,
     trees |-> 0, complete |-> TRUE, card_ids |-> <<>>]

\* index.add_item(i, embedding): Annoy refuses a vector of another length.
add_item(index, i, embedding) ==
    IF embedding.len # index.f THEN Raised("IndexError")
    ELSE [index EXCEPT !.items = Append(@, embedding)]

\* The square of the Euclidean distance of two 0/1 vectors.
Distance2(a, b) == Cardinality((a.ones \ b.ones) \cup (b.ones \ a.ones))

\* index.get_nns_by_vector(vector, n, include_distances=True) on a loaded
\* index: the positions (from 0) of the n nearest items and the squares of
\* their distances, nearest first.  The search is taken as exact, as it is on
\* an index of a few items.  A file that was read while it was written does
\* not load.
get_nns_by_vector(index, vector, n) ==
    IF ~index.complete THEN Raised("OSError")
    ELSE IF vector.len # index.f THEN Raised("IndexError")
    ELSE LET keys  == [i \in 1..Len(index.items) |->
                          Distance2(index.items[i], vector)]
             order == argsort(keys, TRUE)
             m     == IF Len(order) < n THEN Len(order) ELSE n
         IN  [type |-> "tuple",
              ids |-> [r \in 1..m |-> order[r] - 1],
              distances |-> [r \in 1..m |-> keys[order[r]]]]

\* Lines 229-238: the embedding of the detected image.
detected_embedding(detected_image) ==
    LET hashes == compute_robust_hash(detected_image)
    IN  IF IsRaised(hashes) THEN hashes
        ELSE Concatenate3(hashes.phash_vec, hashes.ahash_vec,
                          hashes.dhash_vec)

\* Lines 252-256: nearest_neighbors[0][0] and list(hash_db.keys())[...].
best_match_card_id(nearest_neighbors, hash_db) ==
    IF Len(nearest_neighbors.ids) = 0 THEN Raised("IndexError")
    ELSE LET best_match_index == nearest_neighbors.ids[1]
         IN  IF best_match_index >= Len(hash_db) THEN Raised("IndexError")
             ELSE [type |-> "str",
                   value |-> Keys(hash_db)[best_match_index + 1]]

\* find_matching_card(detected_image) run to its end against the files fs.
find_matching_card(detected_image, fs) ==
    LET embedding == detected_embedding(detected_image)
        index     == fs[annoy_index_path]
        nn        == get_nns_by_vector(index, embedding, NumNeighbors)
    IN  IF IsRaised(embedding) THEN embedding
        ELSE IF IsRaised(nn) THEN nn
        ELSE best_match_card_id(nn, fs[hash_db_path])

\* The embedding of a database entry by the convention of the matcher: the
\* concatenation of its decoded phash, ahash and dhash.
EntryEmbedding(entry) ==
    Concatenate3(hex_to_hash(entry[2].phash).hash,
                 hex_to_hash(entry[2].ahash).hash,
                 hex_to_hash(entry[2].dhash).hash)

\* The index file that belongs to a reference database: one item per entry,
\* in insertion order.
MatchedIndex(hash_db) ==
    [type |-> "AnnoyIndex", f |-> IndexDim, metric |-> "euclidean",
     items |-> [i \in 1..Len(hash_db) |-> EntryEmbedding(hash_db[i])],
     trees |-> NumTrees, complete |-> TRUE, card_ids |-> Keys(hash_db)]

\* The two files as deployed: a database and the index that belongs to it.
DeployedFiles(hash_db) ==
    [p \in {hash_db_path, annoy_index_path} |->
        IF p = hash_db_path THEN hash_db ELSE MatchedIndex(hash_db)]

\* The pictures a lookup is asked about.
QueryImages == [type : {"image"}, content : Contents]

(***************************************************************************)
(* build_annoy_index and find_matching_card step by step, for a build that *)
(* runs next to lookups and to changes of hash_db.json                     *)
(***************************************************************************)
IndexStart ==
    /\ \E hash_db \in DbVersions : files = DeployedFiles(hash_db)
    /\ b_pc = "idle"
    /\ b_hash_db = <<>>
    /\ b_index = None
    /\ b_card_ids = <<>>
    /\ b_i = 0
    /\ l_pc = "idle"
    /\ l_embedding = None
    /\ l_index = None
    /\ l_nn = None
    /\ l_hash_db = <<>>
    /\ l_result = None

IndexIdle ==
    /\ b_pc = "unused"
    /\ b_hash_db = <<>>
    /\ b_index = None
    /\ b_card_ids = <<>>
    /\ b_i = 0
    /\ l_pc = "unused"
    /\ l_embedding = None
    /\ l_index = None
    /\ l_nn = None
    /\ l_hash_db = <<>>
    /\ l_result = None

builderVars == <<b_pc, b_hash_db, b_index, b_card_ids, b_i>>
lookupVars == <<l_pc, l_embedding, l_index, l_nn, l_hash_db, l_result>>

\* hash_db.json is replaced by another version of the reference database.
EditDb ==
    /\ b_pc # "unused"
    /\ \E hash_db \in DbVersions :
          /\ hash_db # files[hash_db_path]
          /\ files' = [files EXCEPT ![hash_db_path] = hash_db]
    /\ UNCHANGED <<builderVars, lookupVars, notIndexVars>>

\* Lines 189-196: the database is read, the index and card_ids are created.
BuildOpen ==
    /\ b_pc \in {"idle", "returned", "raised"}
    /\ b_hash_db' = files[hash_db_path]
    /\ b_index' = AnnoyIndex(IndexDim, "euclidean")
    /\ b_card_ids' = <<>>
    /\ b_i' = 0
    /\ b_pc' = "loop"
    /\ UNCHANGED <<files, lookupVars, notIndexVars>>

\* Lines 199-204: what compute_robust_hash returns for an entry.  Of the
\* three decoded hashes only stored_phash is passed on, as the image.
entry_hashes(stored_phash, stored_ahash, stored_dhash) ==
    compute_robust_hash(stored_phash)

\* Lines 197-211: one iteration of the loop over hash_db.items().
BuildAddItem ==
    /\ b_pc = "loop"
    /\ b_i < Len(b_hash_db)
    /\ LET card_id       == b_hash_db[b_i + 1][1]
           stored_hashes == b_hash_db[b_i + 1][2]
           stored_phash  == hex_to_hash(stored_hashes.phash)
           stored_ahash  == hex_to_hash(stored_hashes.ahash)
           stored_dhash  == hex_to_hash(stored_hashes.dhash)
           hashes        == entry_hashes(stored_phash, stored_ahash,
                                         stored_dhash)
           embedding     == Concatenate3(hashes.phash_vec, hashes.ahash_vec,
                                         hashes.dhash_vec)
           added         == add_item(b_index, b_i, embedding)
       IN  IF IsRaised(hashes)
           THEN b_pc' = "raised" /\ UNCHANGED <<b_index, b_card_ids>>
           ELSE IF IsRaised(added)
           THEN b_pc' = "raised" /\ UNCHANGED <<b_index, b_card_ids>>
           ELSE /\ b_index' = added
                /\ b_card_ids' = Append(b_card_ids, card_id)
                /\ b_pc' = "loop"
    /\ b_i' = b_i + 1
    /\ UNCHANGED <<files, b_hash_db, lookupVars, notIndexVars>>

\* Line 214: index.build(10).
BuildTrees ==
    /\ b_pc = "loop"
    /\ b_i = Len(b_hash_db)
    /\ b_index' = [b_index EXCEPT !.trees = NumTrees]
    /\ b_pc' = "save"
    /\ UNCHANGED <<files, b_hash_db, b_card_ids, b_i, lookupVars, notIndexVars>>

\* Line 215, index.save(annoy_index_path): the file is opened for writing
\* under its own name, which empties it ...
BuildSaveBegin ==
    /\ b_pc = "save"
    /\ files' = [files EXCEPT ![annoy_index_path] =
                    [b_index EXCEPT !.complete = FALSE, !.items = <<>>]]
    /\ b_pc' = "saving"
    /\ UNCHANGED <<b_hash_db, b_index, b_card_ids, b_i, lookupVars,
                   notIndexVars>>

\* ... and then written and closed; the function returns index, card_ids.
BuildSaveEnd ==
    /\ b_pc = "saving"
    /\ files' = [files EXCEPT ![annoy_index_path] =
                    [b_index EXCEPT !.card_ids = b_card_ids]]
    /\ b_pc' = "returned"
    /\ UNCHANGED <<b_hash_db, b_index, b_card_ids, b_i, lookupVars,
                   notIndexVars>>

\* Lines 229-238: the embedding of the image handed in.
LookupHash ==
    /\ l_pc \in {"idle", "returned", "raised"}
    /\ \E detected_image \in QueryImages :
          l_embedding' = detected_embedding(detected_image)
    /\ l_index' = None
    /\ l_nn' = None
    /\ l_hash_db' = <<>>
    /\ l_result' = None
    /\ l_pc' = "load_index"
    /\ UNCHANGED <<files, builderVars, notIndexVars>>

\* Lines 241-242: index.load(annoy_index_path).
LookupLoadIndex ==
    /\ l_pc = "load_index"
    /\ l_index' = files[annoy_index_path]
    /\ l_pc' = "query"
    /\ UNCHANGED <<files, l_embedding, l_nn, l_hash_db, l_result, builderVars,
                   notIndexVars>>

\* Line 245: index.get_nns_by_vector(detected_embedding, 5, ...).
LookupQuery ==
    /\ l_pc = "query"
    /\ LET nn == get_nns_by_vector(l_index, l_embedding, NumNeighbors)
       IN  /\ l_nn' = nn
           /\ l_result' = IF IsRaised(nn) THEN nn ELSE l_result
           /\ l_pc' = IF IsRaised(nn) THEN "raised" ELSE "load_db"
    /\ UNCHANGED <<files, l_embedding, l_index, l_hash_db, builderVars,
                   notIndexVars>>

\* Lines 248-249: hash_db = json.load(f).
LookupLoadDb ==
    /\ l_pc = "load_db"
    /\ l_hash_db' = files[hash_db_path]
    /\ l_pc' = "map"
    /\ UNCHANGED <<files, l_embedding, l_index, l_nn, l_result, builderVars,
                   notIndexVars>>

\* Lines 252-256: the card id at the position of the nearest neighbour.
LookupMap ==
    /\ l_pc = "map"
    /\ l_result' = best_match_card_id(l_nn, l_hash_db)
    /\ l_pc' = IF IsRaised(l_result') THEN "raised" ELSE "returned"
    /\ UNCHANGED <<files, l_embedding, l_index, l_nn, l_hash_db, builderVars,
                   notIndexVars>>

(***************************************************************************)
(* detect_edges_and_corners (app.py 57-142) and upload_image (264-282)     *)
(***************************************************************************)
\* for i, mask in enumerate(masks[:10])
MaskLimit == 10

\* Largest number of masks the detector returns for one image.
MaxMasks == 11

\* A mask without an external contour.
NoContourMask ==
    [hasContour |-> FALSE, contourApprox |-> 0, hullApprox |-> <<>>,
     corners |-> <<>>]

\* A mask whose contour and hull never approximate to 4 vertices.
NoQuadMask ==
    [hasContour |-> TRUE, contourApprox |-> 5,
     hullApprox |-> [k \in 1..SweepCount |-> IF k < 5 THEN 5 ELSE 3],
     corners |-> UnitCorners]

\* A mask whose hull has 4 vertices from the third tolerance of the sweep on.
CardMask ==
    [hasContour |-> TRUE, contourApprox |-> 5,
     hullApprox |-> [k \in 1..SweepCount |-> IF k < 3 THEN 5 ELSE 4],
     corners |-> << <<1, 2>>, <<0, 0>>, <<0, 2>>, <<1, 0>> >>]

\* The masks that give no rectangle.
FailingMasks == {NoContourMask, NoQuadMask}

\* The lists of masks of the requests: up to MaxMasks masks, each either
\* CardMask or the list's one kind of failing mask.
MaskLists ==
    UNION { [1..n -> {CardMask, f}] : n \in 0..MaxMasks, f \in FailingMasks }

\* results[0].masks of the detector: None when nothing was detected, else an
\* object whose data holds the masks.
DetectorResults ==
    {None} \cup { [type |-> "Masks", data |-> s] : s \in MaskLists }

\* The photograph of the requests.
Photo == [w |-> 2, h |-> 1, shows |-> "base1-2"]

\* A request to /upload: whether request.files has 'image', the file's name,
\* whether cv2.imdecode can decode its bytes, the decoded image and what the
\* detector returns for it.
Requests ==
    [has_image : {FALSE}, filename : {""}, decodable : {FALSE},
     image : {None}, masks : {None}]
    \cup [has_image : {TRUE}, filename : {""}, decodable : {FALSE},
          image : {None}, masks : {None}]
    \cup [has_image : {TRUE}, filename : {"card.jpg"}, decodable : {FALSE},
          image : {None}, masks : {None}]
    \cup [has_image : {TRUE}, filename : {"card.jpg"}, decodable : {TRUE},
          image : {Photo}, masks : DetectorResults]

\* The smaller of two numbers.
Min(a, b) == IF a < b THEN a ELSE b

\* The loop over the masks that stops at the first mask without a rectangle.
RECURSIVE detect_loop_break(_, _, _, _, _)
detect_loop_break(masks, i, image, detected, stable) ==
    IF i > Len(masks) THEN detected
    ELSE LET rect == process_full_mask(masks[i])
         IN  IF rect # None
             THEN detect_loop_break(masks, i + 1, image,
                      Append(detected,
                          [image |-> warped_image(image, rect.points, stable),
                           mask_index |-> i]),
                      stable)
             ELSE detected

\* Lines 95-136, for i, mask in enumerate(masks): detected_cards after the
\* loop, from mask i (counted from 1) on.  mask_index records the mask an
\* image comes from; the program keeps the image alone.
RECURSIVE detect_loop(_, _, _, _, _)
detect_loop(masks, i, image, detected, stable) ==
    IF i > Len(masks) THEN detected
    ELSE LET rect == process_full_mask(masks[i])
         IN  IF rect # None
             THEN detect_loop(masks, i + 1, image,
                      Append(detected,
                          [image |-> warped_image(image, rect.points, stable),
                           mask_index |-> i]),
                      stable)
             ELSE detect_loop(masks, i + 1, image, detected, stable)

\* detect_edges_and_corners(file.stream): None when the bytes do not decode,
\* an AttributeError when results[0].masks is None, else detected_cards.
detect_edges_and_corners(req, stable) ==
    IF ~req.decodable THEN None
    ELSE IF req.masks = None THEN Raised("AttributeError")
    ELSE [type |-> "list",
          items |-> detect_loop(
                        SubSeq(req.masks.data, 1,
                               Min(Len(req.masks.data), MaskLimit)),
                        1, req.image, <<>>, stable)]

\* Lines 276-279: matches after the loop over detected_cards, from card i
\* (counted from 1) on; the exception if find_matching_card raises.
RECURSIVE match_loop(_, _, _, _)
match_loop(cards, i, matches, fs) ==
    IF i > Len(cards) THEN [type |-> "list", items |-> matches]
    ELSE LET match_id == find_matching_card(cards[i].image, fs)
         IN  IF IsRaised(match_id) THEN match_id
             ELSE match_loop(cards, i + 1,
                      Append(matches, [card_index |-> i - 1,
                                       closest_match_id |-> match_id.value]),
                      fs)

\* An exception that leaves the view: Flask answers 500.
Unhandled(exc) == [status |-> 500, body |-> [exception |-> exc.name]]

\* upload_image(): the response, given what detect_edges_and_corners
\* returned (detected is not read when the request is rejected).
upload_image(req, detected, fs) ==
    IF ~req.has_image
    THEN [status |-> 400, body |-> [error |-> "No file part"]]
    ELSE IF req.filename = ""
    THEN [status |-> 400, body |-> [error |-> "No selected file"]]
    ELSE IF IsRaised(detected) THEN Unhandled(detected)
    ELSE IF detected = None THEN Unhandled(Raised("TypeError"))
    ELSE LET matches == match_loop(detected.items, 1, <<>>, fs)
         IN  IF IsRaised(matches) THEN Unhandled(matches)
             ELSE [status |-> 200, body |-> [cards |-> matches.items]]

RequestStart ==
    /\ request = None
    /\ detected_cards = [type |-> "not called"]
    /\ response = None
    /\ rpc = "listening"

RequestIdle ==
    /\ request = None
    /\ detected_cards = [type |-> "not called"]
    /\ response = None
    /\ rpc = "unused"

\* One POST /upload, from the request to the response.
Upload ==
    /\ rpc = "listening"
    /\ \E req \in Requests :
          LET called   == req.has_image /\ req.filename # ""
              detected == IF called
                          THEN detect_edges_and_corners(req, stable_sort)
                          ELSE [type |-> "not called"]
          IN  /\ request' = req
              /\ detected_cards' = detected
              /\ response' = upload_image(req, detected, files)
    /\ rpc' = "responded"
    /\ UNCHANGED notRequestVars

(***************************************************************************)
(* Specifications                                                          *)
(***************************************************************************)
\* hash_db.json and pokemon_annoy.index where the part does not change them.
FilesFixed == files = DeployedFiles(DbOf(<<"base1-1", "base1-2">>))

MaskInit ==
    MaskStart /\ GeomIdle /\ stable_sort = TRUE /\ IndexIdle /\ FilesFixed
    /\ RequestIdle
MaskNext == CallProcessFullMask
SpecMask == MaskInit /\ [][MaskNext]_vars

GeomInit == GeomStart /\ MaskIdle /\ IndexIdle /\ FilesFixed /\ RequestIdle
GeomNext == SortPoints \/ RectifyQuad
SpecGeom == GeomInit /\ [][GeomNext]_vars

IndexInit ==
    IndexStart /\ MaskIdle /\ GeomIdle /\ stable_sort = TRUE /\ RequestIdle
IndexNext ==
    \/ EditDb
    \/ BuildOpen \/ BuildAddItem \/ BuildTrees \/ BuildSaveBegin \/ BuildSaveEnd
    \/ LookupHash \/ LookupLoadIndex \/ LookupQuery \/ LookupLoadDb \/ LookupMap
SpecIndex == IndexInit /\ [][IndexNext]_vars

RequestInit ==
    RequestStart /\ MaskIdle /\ GeomIdle /\ stable_sort \in BOOLEAN
    /\ IndexIdle /\ FilesFixed
RequestNext == Upload
SpecRequest == RequestInit /\ [][RequestNext]_vars

\* The first tolerance of the sweep at which the hull has 4 vertices.
HullHasFour(m) == \E k \in 1..SweepCount : m.hullApprox[k] = 4
FirstFour(m) ==
    CHOOSE k \in 1..SweepCount :
        /\ m.hullApprox[k] = 4
        /\ \A j \in 1..(k - 1) : m.hullApprox[j] # 4

\* C1: for a mask with at least one contour, process_full_mask returns None
\* or a polygon of exactly 4 vertices, never one of 3, 5 or another number.
C1_FourOrNone ==
    (mpc = "returned" /\ mask.hasContour) =>
        \/ rectangle = None
        \/ rectangle.type = "polygon" /\ rectangle.n = 4

\* C1 witness: a mask whose contour has 5 vertices at 2% and whose hull first
\* has 3 and then 4 vertices in the sweep was processed and gave a polygon.
C1_Witness ==
    /\ mpc = "returned"
    /\ mask.hasContour
    /\ mask.contourApprox = 5
    /\ mask.hullApprox[1] = 3
    /\ mask.hullApprox[2] = 4
    /\ rectangle # None

\* C10: the sweep runs only if the 2% approximation of the largest contour
\* has not 4 vertices; it tries 1%..10% of the hull's perimeter in ascending
\* order; the polygon returned is that of the first tolerance with 4 vertices;
\* failure is returned exactly when the initial and all 10 sweep
\* approximations have a vertex count other than 4.
C10_FirstSuccessSweep ==
    (mpc = "returned" /\ mask.hasContour) =>
        /\ mask.contourApprox = 4 =>
              rectangle = [type |-> "polygon", curve |-> "largest_contour",
                           epsilon |-> 2, n |-> 4, points |-> mask.corners]
        /\ (mask.contourApprox # 4 /\ HullHasFour(mask)) =>
              rectangle = [type |-> "polygon", curve |-> "hull",
                           epsilon |-> FirstFour(mask), n |-> 4,
                           points |-> mask.corners]
        /\ rectangle = None <=>
              (mask.contourApprox # 4 /\ ~HullHasFour(mask))

\* C10 witness: the hull has 4 vertices at 3% and again at 5%, 5 at the
\* last tolerance, and the polygon of the 3% tolerance was returned.
C10_Witness ==
    /\ mpc = "returned"
    /\ mask.hasContour
    /\ mask.contourApprox = 3
    /\ mask.hullApprox[1] = 5
    /\ mask.hullApprox[2] = 5
    /\ mask.hullApprox[3] = 4
    /\ mask.hullApprox[5] = 4
    /\ mask.hullApprox[10] = 5
    /\ rectangle.type = "polygon"
    /\ rectangle.epsilon = 3

\* The corners are those of an axis-aligned rectangle (0,0),(w,0),(w,h),(0,h).
AxisAligned(q) ==
    \E w, h \in 1..GridMax :
        { q[i] : i \in 1..4 } = { <<0, 0>>, <<w, 0>>, <<w, h>>, <<0, h>> }

\* C2: sort_rectangle_points gives the same sequence for any two orders of the
\* same 4 corners, also when corners share a y coordinate, and for an
\* axis-aligned rectangle that sequence is top-left, top-right, bottom-right,
\* bottom-left.
C2_PermutationInvariant ==
    gpc \in {"sorted", "rectified"} =>
        /\ sorted_a = sorted_b
        /\ AxisAligned(quad) =>
              \E w, h \in 1..GridMax :
                  sorted_a = << <<0, 0>>, <<w, 0>>, <<w, h>>, <<0, h>> >>

\* C7: when the ordered source points make the transform singular, no warped
\* image is appended to the list of detected cards for that mask.
C7_DegenerateSkipped ==
    (gpc = "rectified" /\ Degenerate(rectangle_original(quad_perm, img))) =>
        warped_cards = <<>>

\* C4: after build_annoy_index has run on a database of N entries, card_ids
\* has the N card ids in insertion order, and a query of the built index with
\* the embedding stored for entry k gives position k at distance 0.0, which
\* card_ids maps to entry k's card id.
C4_IndexSelfConsistent ==
    b_pc \in {"returned", "raised"} =>
        /\ b_pc = "returned"
        /\ b_card_ids = Keys(b_hash_db)
        /\ Len(b_index.items) = Len(b_hash_db)
        /\ \A k \in 1..Len(b_hash_db) :
              LET nn == get_nns_by_vector(b_index, b_index.items[k],
                                          NumNeighbors)
              IN  /\ nn.ids[1] = k - 1
                  /\ nn.distances[1] = 0
                  /\ b_card_ids[nn.ids[1] + 1] = b_hash_db[k][1]

\* C5: the embedding inserted for every entry the build has gone through is
\* the concatenation (phash, ahash, dhash) of the entry's three decoded
\* hashes, IndexDim elements long, at the entry's position.
C5_EmbeddingOfThreeHashes ==
    b_pc \in {"loop", "save", "saving", "returned", "raised"} =>
        \A i \in 1..b_i :
            /\ i <= Len(b_index.items)
            /\ b_index.items[i] = EntryEmbedding(b_hash_db[i])
            /\ b_index.items[i].len = IndexDim

\* C6: a lookup that has loaded the index and the database maps positions to
\* card ids through a database whose keys are, in number and order, the
\* card_ids of the build that wrote the index; any other pair is rejected at
\* load time.
C6_MatchedPairOnly ==
    l_pc \in {"map", "returned"} => Keys(l_hash_db) = l_index.card_ids

\* C8: a build writes the new index elsewhere than where lookups load it, so
\* the file under annoy_index_path is whole while the build saves, and no
\* lookup loads a partially written index.
C8_BuildApartFromLookups ==
    /\ b_pc = "saving" => files[annoy_index_path].complete
    /\ l_pc \in {"query", "load_db", "map", "returned", "raised"} =>
          l_index.complete

\* The masks, counted from 1, for which process_full_mask returns a polygon.
QuadMasks(masks) ==
    { i \in 1..Len(masks) : process_full_mask(masks[i]) # None }

\* detected_cards holds one image for each mask of the set, in mask order,
\* and the response one entry for each image, in the same order.
CardsReportedFor(expected) ==
    LET d == detected_cards.items
    IN  /\ { d[j].mask_index : j \in 1..Len(d) } = expected
        /\ \A j, k \in 1..Len(d) : j < k => d[j].mask_index < d[k].mask_index
        /\ response.status = 200 =>
              /\ Len(response.body.cards) = Len(d)
              /\ \A j \in 1..Len(d) : response.body.cards[j].card_index = j - 1

\* The detector returned a list of masks for a decodable upload.
MasksDetected ==
    /\ rpc = "responded"
    /\ request.has_image
    /\ request.filename # ""
    /\ request.decodable
    /\ request.masks # None

\* C3 (as claimed): for a list of masks of any length, the cards list has one
\* entry for each mask that gave a quadrilateral, in mask order, and none for
\* another mask; a failing mask does not end the request.
C3_EveryQuadMaskReported ==
    MasksDetected =>
        /\ detected_cards.type = "list"
        /\ CardsReportedFor(QuadMasks(request.masks.data))

\* C3 (amended): the cards list has one entry for each of the first 10 masks
\* that gave a quadrilateral, in mask order, and none for another mask; a
\* failing mask among them does not end the request nor keep a later one of
\* the first 10 from being reported.
C3_FirstTenQuadMasksReported ==
    MasksDetected =>
        /\ detected_cards.type = "list"
        /\ CardsReportedFor(QuadMasks(request.masks.data) \cap 1..MaskLimit)

\* C3 witness: 11 masks, a failing one before two that give a quadrilateral,
\* were answered with the two cards.
C3_Witness ==
    /\ MasksDetected
    /\ Len(request.masks.data) = MaskLimit + 1
    /\ request.masks.data[1] = CardMask
    /\ request.masks.data[2] = NoQuadMask
    /\ request.masks.data[3] = CardMask
    /\ \A i \in 4..(MaskLimit + 1) : request.masks.data[i] = NoQuadMask
    /\ response.status = 200
    /\ Len(response.body.cards) = 2
    /\ response.body.cards[2].closest_match_id = "base1-2"

\* C9: a request without 'image' or with an empty filename is rejected with
\* status 400 before any detection; every other request, also one whose bytes
\* do not decode and one without detected masks, is answered {cards: [...]};
\* no request ends in an unhandled failure.
C9_RejectedOrCards ==
    rpc = "responded" =>
        IF ~request.has_image \/ request.filename = ""
        THEN /\ response.status = 400
             /\ detected_cards.type = "not called"
        ELSE /\ response.status = 200
             /\ DOMAIN response.body = {"cards"}
====
